---- MODULE Spec2Model ----
(***************************************************************************)
(* Trade data & KOSPI 200 dashboard (src/app.py, src/data_handler.py).     *)
(*                                                                         *)
(* The model follows the script of src/app.py: load_trade_data,            *)
(* get_and_update_kospi_data, process_kospi_for_chart, the session state,  *)
(* the filter + merge that builds display_df and the column selection of   *)
(* the chart.  Dates are integers YYYYMMDD; float cells are exact          *)
(* rationals extended with NaN and +-inf.                                  *)
(***************************************************************************)
EXTENDS Integers, Sequences, FiniteSets, TLC

VARIABLES
    pc,                    \* position of the script of src/app.py
    trade_file,            \* trade_data.csv: [exists, rows]
    trade_data_processed,  \* result of load_trade_data(): [none, rows]
    cached_trade,          \* st.cache_data holds the result of load_trade_data
    derived_computed,      \* the trailing/growth loop of load_trade_data has run
    today,                 \* pd.Timestamp.now() of the process
    cache_file,            \* kospi200.csv: [exists, rows]
    requests,              \* the ticker.history requests the process has issued
    remote_outcome,        \* what the last request met: [kind, rows], the kind one
                           \* of none, raised, empty, rows
    cache_written,         \* the process has written kospi200.csv
    daily_kospi_data,      \* first result of get_and_update_kospi_data()
    kospi_status_msg,      \* its second result
    cached_kospi,          \* st.cache_data holds the result of get_and_update_kospi_data
    kospi_data_processed,  \* result of process_kospi_for_chart()
    session,               \* st.session_state
    display_df,            \* the merged table
    cols_to_use,           \* the columns the chart shows
    runs                   \* processes started so far

trade_vars == <<trade_file, trade_data_processed, cached_trade, derived_computed>>
kospi_vars == <<today, cache_file, requests, remote_outcome, cache_written,
                daily_kospi_data, kospi_status_msg, cached_kospi>>
view_vars == <<kospi_data_processed, session, display_df, cols_to_use>>

\* ------------------------------------------------------------------ bounds

\* months of the main country's series in the trade file
MaxMonths == 25
\* the absent calendar month of the main series is one of months 1..MaxGap (0: none)
MaxGap == 1
\* rows of the other country in the trade file
MaxOther == 1

\* ---------------------------------------------------------------- calendar

Year(d) == d \div 10000
Month(d) == (d \div 100) % 100
Day(d) == d % 100
MkDate(y, m, dd) == y * 10000 + m * 100 + dd

IsLeap(y) == (y % 4 = 0 /\ y % 100 # 0) \/ y % 400 = 0

DaysInMonth(y, m) ==
    IF m = 2 THEN (IF IsLeap(y) THEN 29 ELSE 28)
    ELSE IF m \in {4, 6, 9, 11} THEN 30 ELSE 31

\* number of the calendar month of a date, counted from year 0
MonthIdx(d) == Year(d) * 12 + Month(d) - 1

\* first day of the calendar month number mi
MonthStart(mi) == MkDate(mi \div 12, (mi % 12) + 1, 1)

\* d + pd.offsets.MonthEnd(0): rolled forward to the last day of its month
MonthEnd(d) == MkDate(Year(d), Month(d), DaysInMonth(Year(d), Month(d)))

\* d + pd.Timedelta(days=1)
NextDay(d) ==
    IF Day(d) < DaysInMonth(Year(d), Month(d)) THEN d + 1
    ELSE IF Month(d) < 12 THEN MkDate(Year(d), Month(d) + 1, 1)
    ELSE MkDate(Year(d) + 1, 1, 1)

\* d - pd.DateOffset(years=k): same month and day, the day clipped to the month
SubYears(d, k) ==
    LET y == Year(d) - k
        dim == DaysInMonth(y, Month(d))
    IN MkDate(y, Month(d), IF Day(d) > dim THEN dim ELSE Day(d))

\* ------------------------------------------------------------ float cells

Abs(x) == IF x < 0 THEN -x ELSE x
Sign(x) == IF x < 0 THEN -1 ELSE IF x > 0 THEN 1 ELSE 0

RECURSIVE GCD(_, _)
GCD(a, b) == IF b = 0 THEN a ELSE GCD(b, a % b)

NaN == [k |-> "nan", n |-> 0, d |-> 1]
Inf(s) == [k |-> "inf", n |-> s, d |-> 1]
Num(x) == [k |-> "num", n |-> x, d |-> 1]

\* the rational a/b (b # 0) in lowest terms with a positive denominator
Frac(a, b) ==
    LET g == GCD(Abs(a), Abs(b))
    IN [k |-> "num", n |-> (Sign(b) * a) \div g, d |-> Abs(b) \div g]

IsNum(v) == v.k = "num"
IsNaN(v) == v.k = "nan"
IsInf(v) == v.k = "inf"

FAdd(a, b) ==
    IF IsNaN(a) \/ IsNaN(b) THEN NaN
    ELSE IF IsInf(a) /\ IsInf(b) THEN (IF a.n = b.n THEN a ELSE NaN)
    ELSE IF IsInf(a) THEN a
    ELSE IF IsInf(b) THEN b
    ELSE IF a.d = 1 /\ b.d = 1 THEN Num(a.n + b.n)
    ELSE Frac(a.n * b.d + b.n * a.d, a.d * b.d)

\* IEEE division: x/0 is +-inf, 0/0 is NaN
FDiv(a, b) ==
    IF IsNaN(a) \/ IsNaN(b) THEN NaN
    ELSE IF IsInf(a) THEN (IF IsInf(b) THEN NaN
                           ELSE Inf(a.n * (IF b.n < 0 THEN -1 ELSE 1)))
    ELSE IF IsInf(b) THEN Num(0)
    ELSE IF b.n = 0 THEN (IF a.n = 0 THEN NaN ELSE Inf(Sign(a.n)))
    ELSE Frac(a.n * b.d, a.d * b.n)

FSubInt(a, i) ==
    IF IsNum(a) THEN Frac(a.n - i * a.d, a.d) ELSE a

FMulInt(a, i) ==
    IF IsNum(a) THEN Frac(a.n * i, a.d)
    ELSE IF IsInf(a) THEN (IF i = 0 THEN NaN ELSE Inf(a.n * Sign(i)))
    ELSE a

\* ------------------------------------------------------------ trade table

base_col_names == <<"export_amount", "import_amount", "trade_balance">>

\* the country names of the model, in the (lexicographic) order sort_values uses
\* '미국', '중국', '총합' of the selectbox
CountryOrder == <<"US", "CN", "Total">>
Countries == {CountryOrder[i] : i \in DOMAIN CountryOrder}
CountryRank(c) == CHOOSE i \in DOMAIN CountryOrder : CountryOrder[i] = c

NoneDF == [none |-> TRUE, rows |-> <<>>]
DF(rows) == [none |-> FALSE, rows |-> rows]

WithCol(r, name, v) == (name :> v) @@ r

IndexSeq(n) == [i \in 1..n |-> i]

\* sort_values(by=['country_name', 'Date']): the order of the sort keys
RowLE(a, b) ==
    \/ CountryRank(a.country_name) < CountryRank(b.country_name)
    \/ /\ a.country_name = b.country_name
       /\ a.Date <= b.Date

\* stable insertion of r behind every row that is not greater
RECURSIVE InsertRow(_, _)
InsertRow(r, s) ==
    IF s = <<>> THEN <<r>>
    ELSE IF RowLE(s[Len(s)], r) THEN Append(s, r)
    ELSE Append(InsertRow(r, SubSeq(s, 1, Len(s) - 1)), s[Len(s)])

RECURSIVE SortRowsFrom(_, _, _)
SortRowsFrom(rows, i, acc) ==
    IF i > Len(rows) THEN acc
    ELSE SortRowsFrom(rows, i + 1, InsertRow(rows[i], acc))

\* trade_df.sort_values(by=['country_name', 'Date']).reset_index(drop=True)
sort_values(rows) == SortRowsFrom(rows, 1, <<>>)

\* groupby('country_name'): two rows are of one group
SameGroupNone(c1, c2) == TRUE
SameGroup(c1, c2) == c1 = c2

\* the row numbers of the group of country c, ascending
GroupIdx(df, c) ==
    SelectSeq(IndexSeq(Len(df)), LAMBDA i : SameGroup(df[i].country_name, c))

\* the position of row i in its group
PosInGroup(df, i) ==
    Cardinality({j \in 1..i : SameGroup(df[j].country_name, df[i].country_name)})

\* groupby('country_name')[col]: the column of one group
GroupCol(df, c, col) ==
    LET g == GroupIdx(df, c) IN [p \in 1..Len(g) |-> df[g[p]][col]] \o <<>>

RECURSIVE SumCells(_, _, _)
SumCells(xs, lo, hi) ==
    IF lo > hi THEN Num(0)
    ELSE IF IsNaN(xs[hi]) THEN SumCells(xs, lo, hi - 1)
    ELSE FAdd(SumCells(xs, lo, hi - 1), xs[hi])

\* .rolling(window, min_periods).sum() on one group's column
rolling_sum(xs, window, min_periods) ==
    [p \in 1..Len(xs) |->
        LET lo == IF p - window + 1 < 1 THEN 1 ELSE p - window + 1
            obs == {q \in lo..p : ~IsNaN(xs[q])}
        IN IF Cardinality(obs) < min_periods THEN NaN
           ELSE SumCells(xs, lo, p)] \o <<>>

\* ffill() on one group's column: the last value that is not missing
RECURSIVE FilledAt(_, _)
FilledAt(xs, p) ==
    IF p < 1 THEN NaN
    ELSE IF ~IsNaN(xs[p]) THEN xs[p]
    ELSE FilledAt(xs, p - 1)

ffill(xs) == [p \in 1..Len(xs) |-> FilledAt(xs, p)] \o <<>>

\* one cell of pct_change: filled / shifted - 1
PctCell(cur, prior) == FSubInt(FDiv(cur, prior), 1)

\* the fill of pct_change (fill_method's default: forward fill)
PctFill(xs) == ffill(xs)

\* .pct_change(periods) on one group's column
pct_change(xs, periods) ==
    LET filled == PctFill(xs)
    IN [p \in 1..Len(xs) |->
           IF p - periods < 1 THEN NaN
           ELSE PctCell(filled[p], filled[p - periods])] \o <<>>

Window == 12
Periods == 12

\* df[new] = per-group column, aligned on the row index
AssignGrouped(df, new, percountry) ==
    [i \in 1..Len(df) |->
        WithCol(df[i], new, percountry[df[i].country_name][PosInGroup(df, i)])]
    \o <<>>

CountriesOf(df) == {df[i].country_name : i \in 1..Len(df)}

Trailing12m(df, col) ==
    AssignGrouped(df, col \o "_trailing_12m",
        [c \in CountriesOf(df) |-> rolling_sum(GroupCol(df, c, col), Window, Window)]
        @@ <<>>)

YoyGrowth(df, col, new) ==
    AssignGrouped(df, new,
        [c \in CountriesOf(df) |->
            LET g == pct_change(GroupCol(df, c, col), Periods)
            IN [p \in DOMAIN g |-> FMulInt(g[p], 100)] \o <<>>] @@ <<>>)

\* one iteration of the loop over the base columns
DeriveCol(df, col) ==
    LET d1 == Trailing12m(df, col)
        d2 == YoyGrowth(d1, col, col \o "_yoy_growth")
    IN YoyGrowth(d2, col \o "_trailing_12m", col \o "_trailing_12m_yoy_growth")

ValueCols(r) == (DOMAIN r) \ {"country_name", "Date"}

\* trade_df.replace([np.inf, -np.inf], np.nan)
replace_inf(df) ==
    [i \in 1..Len(df) |->
        [c \in DOMAIN df[i] |->
            IF c \in ValueCols(df[i]) /\ IsInf(df[i][c]) THEN NaN ELSE df[i][c]]]

\* load_trade_data on the rows of an existing file
load_rows(rows) ==
    LET sorted == sort_values(rows)
        d1 == DeriveCol(sorted, base_col_names[1])
        d2 == DeriveCol(d1, base_col_names[2])
        d3 == DeriveCol(d2, base_col_names[3])
    IN replace_inf(d3)

\* load_trade_data(): None when the file is absent
load_trade_data(file) ==
    IF ~file.exists THEN NoneDF ELSE DF(load_rows(file.rows))

\* ------------------------------------------------------- the trade file

TradeRow(c, date, e, i, b) ==
    [country_name |-> c, Date |-> date,
     export_amount |-> e, import_amount |-> i, trade_balance |-> b]

\* first calendar month of the series of the model
BaseMonth == MonthIdx(20190101)

\* the overriding cells <<export_amount, import_amount, trade_balance>> of one row:
\* every column gets a missing, a zero and a negative value; the last one is a
\* row of three numbers whose trade_balance is not export_amount - import_amount
Overrides == {<<NaN, Num(0), Num(-7)>>, <<Num(0), Num(-7), NaN>>,
              <<Num(-7), NaN, Num(0)>>, <<Num(5), Num(3), Num(9)>>}

\* the defaults of month number k of a series: exports grow, imports are flat
DefaultExport(k) == Num(10 + k)
DefaultImport(k) == Num(12)
DefaultBalance(k) == Num(k - 2)

\* the series of country c: months 0..n-1 without month gap (0: none absent), the
\* cells of month opos overridden (opos = n: none)
SeriesRows(c, n, gap, opos, oval) ==
    LET months == SelectSeq(IndexSeq(n), LAMBDA j : gap = 0 \/ j # gap + 1)
    IN [p \in 1..Len(months) |->
          LET k == months[p] - 1
          IN IF k = opos
             THEN TradeRow(c, MonthStart(BaseMonth + k), oval[1], oval[2], oval[3])
             ELSE TradeRow(c, MonthStart(BaseMonth + k),
                           DefaultExport(k), DefaultImport(k), DefaultBalance(k))]

OtherRows(c, n) ==
    [p \in 1..n |-> TradeRow(c, MonthStart(BaseMonth + p - 1),
                             Num(1000 * p), Num(500), Num(1000 * p - 500))]

Reverse(s) == [i \in 1..Len(s) |-> s[Len(s) + 1 - i]]

\* the trade files of the trade-table specification
TradeFiles ==
    { [exists |-> TRUE,
       rows |-> IF rev THEN Reverse(main \o other) ELSE other \o main] :
        rev \in BOOLEAN,
        main \in { SeriesRows("US", MaxMonths, gap, opos, oval) :
                     gap \in 0..MaxGap, opos \in 0..MaxMonths,
                     oval \in Overrides },
        other \in { OtherRows("CN", n) : n \in 0..MaxOther } }

\* ------------------------------------------------------- the index cache

\* candidate days of the rows the remote source answers with
RemoteDayPool == <<20200131, 20200210, 20200115, 20200302>>
MaxRemoteDays == 2
RemoteDays == {RemoteDayPool[j] : j \in 1..MaxRemoteDays}
RemoteCloses == {Num(106), Num(110)}

\* processes started one after the other on the same cache file
MaxRuns == 3

KospiRow(date, close) == [Date |-> date, Close |-> close]

RECURSIVE SetToSortedSeq(_)
SetToSortedSeq(S) ==
    IF S = {} THEN <<>>
    ELSE LET x == CHOOSE y \in S : \A z \in S : y <= z
         IN <<x>> \o SetToSortedSeq(S \ {x})

\* the daily series with one row per day of D, ascending, closes by f
SeriesOf(D, f) ==
    LET days == SetToSortedSeq(D)
    IN [j \in 1..Len(days) |-> KospiRow(days[j], f[days[j]])]

\* what the remote source may answer: rows of any of the candidate days
Replies(days, closes) ==
    UNION { {SeriesOf(D, f) : f \in [D -> closes]} : D \in SUBSET days }

CacheA == <<KospiRow(20200115, Num(100)), KospiRow(20200131, Num(105))>>
Todays == {20200131, 20200211}

RECURSIVE MaxDate(_)
MaxDate(rows) ==
    IF Len(rows) = 1 THEN rows[1].Date
    ELSE LET m == MaxDate(Tail(rows))
         IN IF rows[1].Date > m THEN rows[1].Date ELSE m

\* drop_duplicates(subset=['Date'], keep='last'): which occurrence of a date stays
KeepFirst(rows, i) == \A j \in 1..(i - 1) : rows[j].Date # rows[i].Date
KeepLast(rows, i) == \A j \in (i + 1)..Len(rows) : rows[j].Date # rows[i].Date

drop_duplicates(rows) ==
    LET kept == SelectSeq(IndexSeq(Len(rows)), LAMBDA i : KeepLast(rows, i))
    IN [p \in 1..Len(kept) |-> rows[kept[p]]]

NoMsg == "None"
NoRequest == [kind |-> "none", rows |-> <<>>]
FirstStart == 19910101

\* the request the call issues, if any: the whole history without a cache file, the
\* days after the last cached date when that date is before today
UpdateStart(last) == NextDay(last)

NeedsUpdate(file, now) == file.exists /\ MaxDate(file.rows) < now

RequestOf(file, now) ==
    IF ~file.exists THEN <<[start |-> FirstStart, end |-> now]>>
    ELSE IF NeedsUpdate(file, now)
    THEN <<[start |-> UpdateStart(MaxDate(file.rows)), end |-> now]>>
    ELSE <<>>

\* get_and_update_kospi_data(): the call on cache file `file` on day `now`, the
\* remote source raising (fail) or answering with `reply`
\*   [df, msg, file, outcome, wrote]
UpdateFailedResultNone(file) ==
    [df |-> NoneDF, msg |-> "update_error", file |-> file,
     outcome |-> "raised", wrote |-> FALSE]
UpdateFailedResult(file) ==
    [df |-> DF(file.rows), msg |-> "update_error", file |-> file,
     outcome |-> "raised", wrote |-> FALSE]

get_and_update_kospi_data(file, now, fail, reply) ==
    IF ~file.exists
    THEN IF fail
         THEN [df |-> NoneDF, msg |-> "download_error", file |-> file,
               outcome |-> "raised", wrote |-> FALSE]
         ELSE IF reply = <<>>
         THEN [df |-> NoneDF, msg |-> "download_failed", file |-> file,
               outcome |-> "empty", wrote |-> FALSE]
         ELSE [df |-> DF(reply), msg |-> NoMsg,
               file |-> [exists |-> TRUE, rows |-> reply],
               outcome |-> "rows", wrote |-> TRUE]
    ELSE IF NeedsUpdate(file, now)
    THEN IF fail THEN UpdateFailedResult(file)
         ELSE IF reply # <<>>
         THEN LET updated_df == drop_duplicates(file.rows \o reply)
              IN [df |-> DF(updated_df), msg |-> NoMsg,
                  file |-> [exists |-> TRUE, rows |-> updated_df],
                  outcome |-> "rows", wrote |-> TRUE]
         ELSE [df |-> DF(file.rows), msg |-> NoMsg, file |-> file,
               outcome |-> "empty", wrote |-> FALSE]
    ELSE [df |-> DF(file.rows), msg |-> NoMsg, file |-> file,
          outcome |-> "none", wrote |-> FALSE]

\* --------------------------------------------------------- the resampling

RECURSIVE InsertByDate(_, _)
InsertByDate(r, s) ==
    IF s = <<>> THEN <<r>>
    ELSE IF s[Len(s)].Date <= r.Date THEN Append(s, r)
    ELSE Append(InsertByDate(r, SubSeq(s, 1, Len(s) - 1)), s[Len(s)])

RECURSIVE SortByDateFrom(_, _, _)
SortByDateFrom(rows, i, acc) ==
    IF i > Len(rows) THEN acc
    ELSE SortByDateFrom(rows, i + 1, InsertByDate(rows[i], acc))

\* the last value of a bin that is not missing
RECURSIVE LastValid(_)
LastValid(xs) ==
    IF xs = <<>> THEN NaN
    ELSE IF ~IsNaN(xs[Len(xs)]) THEN xs[Len(xs)]
    ELSE LastValid(SubSeq(xs, 1, Len(xs) - 1))

\* the monthly bins of resample('M'): every calendar month from the first to the last
ResampleBinsPresent(sorted) == {MonthIdx(sorted[j].Date) : j \in 1..Len(sorted)}
ResampleBins(sorted) ==
    MonthIdx(sorted[1].Date)..MonthIdx(sorted[Len(sorted)].Date)

\* set_index('Date').resample('M').last().reset_index()[['Date', 'Close']]
\*   .rename(columns={'Close': 'kospi_price'})
resample_last(rows) ==
    IF rows = <<>> THEN <<>>
    ELSE LET sorted == SortByDateFrom(rows, 1, <<>>)
             bins == SetToSortedSeq(ResampleBins(sorted))
         IN [b \in 1..Len(bins) |->
               LET inbin == SelectSeq(sorted, LAMBDA r : MonthIdx(r.Date) = bins[b])
               IN [Date |-> MonthEnd(MonthStart(bins[b])),
                   kospi_price |->
                       LastValid([j \in 1..Len(inbin) |-> inbin[j].Close])]]

process_kospi_for_chart(daily_df) ==
    IF daily_df.none THEN NoneDF ELSE DF(resample_last(daily_df.rows))

\* candidate days of the daily series of the resampling specification
ResampleDayPool == <<20200115, 20200131, 20200210, 20200405, 20200420>>
MaxResampleDays == 4
ResampleDays == {ResampleDayPool[j] : j \in 1..MaxResampleDays}
ResampleCloses == {Num(100), Num(105), Num(110)}

\* the daily tables of the resampling specification: the rows of a cache (ascending)
\* followed by the rows of a later delta (ascending), no date twice
DailyTables ==
    UNION { UNION { {SeriesOf(A, f) \o SeriesOf(B, g) :
                        f \in [A -> ResampleCloses], g \in [B -> {Num(110)}]} :
                    B \in SUBSET (ResampleDays \ A) } :
            A \in SUBSET ResampleDays }

\* ------------------------------------------------------------ the display

PeriodLabels == <<"1y", "3y", "5y", "10y", "20y", "all">>
PeriodYears(label) ==
    CASE label = "1y" -> 1 [] label = "3y" -> 3 [] label = "5y" -> 5
      [] label = "10y" -> 10 [] label = "20y" -> 20 [] OTHER -> 99

RECURSIVE MinDate(_)
MinDate(rows) ==
    IF Len(rows) = 1 THEN rows[1].Date
    ELSE LET m == MinDate(Tail(rows))
         IN IF rows[1].Date < m THEN rows[1].Date ELSE m

NoSession ==
    [init_done |-> FALSE, selected_country |-> "", is_12m_trailing |-> FALSE,
     show_yoy_growth |-> FALSE, selected_period |-> "", start_date |-> 0,
     end_date |-> 0]

\* the rows of the selected country inside the selected period, keyed by month end
trade_filtered_df(df, st) ==
    LET sel == SelectSeq(df, LAMBDA r : /\ r.country_name = st.selected_country
                                        /\ r.Date >= st.start_date
                                        /\ r.Date <= st.end_date)
    IN [j \in 1..Len(sel) |-> [sel[j] EXCEPT !.Date = MonthEnd(sel[j].Date)]]

RECURSIVE FlattenSeq(_)
FlattenSeq(ss) == IF ss = <<>> THEN <<>> ELSE ss[1] \o FlattenSeq(Tail(ss))

\* the rows a left row gives in the merge, by the kind of join
JoinInner(l, matches) ==
    [j \in 1..Len(matches) |-> WithCol(l, "kospi_price", matches[j].kospi_price)]
JoinLeft(l, matches) ==
    IF matches = <<>> THEN <<WithCol(l, "kospi_price", NaN)>>
    ELSE [j \in 1..Len(matches) |-> WithCol(l, "kospi_price", matches[j].kospi_price)]

\* pd.merge(left, right, on='Date', how='left')
merge_left(left, right) ==
    FlattenSeq([i \in 1..Len(left) |->
        JoinLeft(left[i], SelectSeq(right, LAMBDA r : r.Date = left[i].Date))])

\* the chart's columns by the two toggles
ColsToUseWrongOrder(is_12m_trailing, show_yoy_growth) ==
    [j \in 1..3 |->
        base_col_names[j]
            \o (IF show_yoy_growth THEN "_yoy_growth" ELSE "")
            \o (IF is_12m_trailing THEN "_trailing_12m" ELSE "")]
ColsToUse(is_12m_trailing, show_yoy_growth) ==
    IF is_12m_trailing
    THEN IF show_yoy_growth
         THEN [j \in 1..3 |-> base_col_names[j] \o "_trailing_12m_yoy_growth"]
         ELSE [j \in 1..3 |-> base_col_names[j] \o "_trailing_12m"]
    ELSE IF show_yoy_growth
         THEN [j \in 1..3 |-> base_col_names[j] \o "_yoy_growth"]
         ELSE base_col_names

\* the trade files of the dashboard specification
ShortRow(c, date, e, i) == TradeRow(c, date, Num(e), Num(i), Num(e - i))
TradeFileA ==
    <<ShortRow("US", 20200201, 30, 20), ShortRow("US", 20191201, 25, 20),
      ShortRow("Total", 20190101, 90, 80),
      ShortRow("Total", 20200101, 100, 70), ShortRow("Total", 20200201, 110, 120)>>
TradeFileB ==
    <<ShortRow("Total", 20200301, 100, 70), ShortRow("CN", 20200101, 50, 60)>>

\* ---------------------------------------------------------------- actions

\* src/app.py:141  trade_data_processed = load_trade_data()
CallLoadTradeData ==
    /\ pc = "load_trade"
    /\ trade_data_processed' =
         IF cached_trade THEN trade_data_processed ELSE load_trade_data(trade_file)
    /\ derived_computed' = (derived_computed \/ (~cached_trade /\ trade_file.exists))
    /\ cached_trade' = TRUE
    /\ pc' = "get_kospi"
    /\ UNCHANGED <<trade_file, kospi_vars, view_vars, runs>>

\* src/app.py:142  daily_kospi_data, kospi_status_msg = get_and_update_kospi_data()
CallGetAndUpdateKospiData ==
    /\ pc = "get_kospi"
    /\ \E fail \in BOOLEAN, reply \in Replies(RemoteDays, RemoteCloses) :
        LET res == get_and_update_kospi_data(cache_file, today, fail, reply)
        IN IF cached_kospi
           THEN UNCHANGED <<cache_file, requests, remote_outcome, cache_written,
                            daily_kospi_data, kospi_status_msg>>
           ELSE /\ daily_kospi_data' = res.df
                /\ kospi_status_msg' = res.msg
                /\ cache_file' = res.file
                /\ requests' = requests \o RequestOf(cache_file, today)
                /\ remote_outcome' =
                     [kind |-> res.outcome,
                      rows |-> IF res.outcome = "rows" THEN reply ELSE <<>>]
                /\ cache_written' = (cache_written \/ res.wrote)
    /\ cached_kospi' = TRUE
    /\ pc' = "checks"
    /\ UNCHANGED <<today, trade_vars, view_vars, runs>>

\* src/app.py:147-152: st.stop() without the trade table or without the index
MustStopTradeOnly == trade_data_processed.none
MustStop == trade_data_processed.none \/ daily_kospi_data.none

\* src/app.py:144-152
Checks ==
    /\ pc = "checks"
    /\ pc' = IF MustStop THEN "stopped" ELSE "process_kospi"
    /\ UNCHANGED <<trade_vars, kospi_vars, view_vars, runs>>

\* src/app.py:154  kospi_data_processed = process_kospi_for_chart(daily_kospi_data)
CallProcessKospi ==
    /\ pc = "process_kospi"
    /\ kospi_data_processed' = process_kospi_for_chart(daily_kospi_data)
    /\ pc' = "session_init"
    /\ UNCHANGED <<trade_vars, kospi_vars, session, display_df, cols_to_use, runs>>

\* src/app.py:157-164
SessionInit ==
    /\ pc = "session_init"
    /\ session' =
         IF session.init_done THEN session
         ELSE [init_done |-> TRUE, selected_country |-> "Total",
               is_12m_trailing |-> FALSE, show_yoy_growth |-> FALSE,
               selected_period |-> "all",
               start_date |-> MinDate(trade_data_processed.rows),
               end_date |-> MaxDate(trade_data_processed.rows)]
    /\ pc' = "merge"
    /\ UNCHANGED <<trade_vars, kospi_vars, kospi_data_processed, display_df,
                   cols_to_use, runs>>

\* src/app.py:169-175
FilterAndMerge ==
    /\ pc = "merge"
    /\ display_df' = DF(merge_left(trade_filtered_df(trade_data_processed.rows, session),
                                   kospi_data_processed.rows))
    /\ pc' = "chart"
    /\ UNCHANGED <<trade_vars, kospi_vars, kospi_data_processed, session,
                   cols_to_use, runs>>

\* src/app.py:233-241
Chart ==
    /\ pc = "chart"
    /\ cols_to_use' =
         IF display_df.rows # <<>>
         THEN ColsToUse(session.is_12m_trailing, session.show_yoy_growth)
         ELSE cols_to_use
    /\ pc' = "controls"
    /\ UNCHANGED <<trade_vars, kospi_vars, kospi_data_processed, session,
                   display_df, runs>>

\* st.rerun(): the script starts again, the session state and st.cache_data stay
Rerun(new_session) ==
    /\ session' = new_session
    /\ pc' = "load_trade"
    /\ kospi_data_processed' = NoneDF
    /\ display_df' = NoneDF
    /\ cols_to_use' = <<>>
    /\ UNCHANGED <<trade_vars, kospi_vars, runs>>

\* src/app.py:290-294
SelectCountry ==
    /\ pc = "controls"
    /\ \E c \in Countries \ {session.selected_country} :
        Rerun([session EXCEPT !.selected_country = c])

\* src/app.py:295-301
Toggle12m ==
    /\ pc = "controls"
    /\ Rerun([session EXCEPT !.is_12m_trailing = ~session.is_12m_trailing])

\* src/app.py:302-308
ToggleYoy ==
    /\ pc = "controls"
    /\ Rerun([session EXCEPT !.show_yoy_growth = ~session.show_yoy_growth])

\* src/app.py:313-323
ClickPeriod ==
    /\ pc = "controls"
    /\ \E j \in DOMAIN PeriodLabels :
        LET label == PeriodLabels[j]
            end_date == MaxDate(trade_data_processed.rows)
            start_date == IF label = "all" THEN MinDate(trade_data_processed.rows)
                          ELSE SubYears(end_date, PeriodYears(label))
        IN Rerun([session EXCEPT !.start_date = start_date, !.end_date = end_date,
                                 !.selected_period = label])

\* the process ends and a new one starts, the same day or later, on the files the
\* old one left
Restart ==
    /\ pc \in {"stopped", "process_kospi"}
    /\ runs < MaxRuns
    /\ runs' = runs + 1
    /\ today' \in {t \in Todays : t >= today}
    /\ pc' = "load_trade"
    /\ trade_data_processed' = NoneDF
    /\ cached_trade' = FALSE
    /\ derived_computed' = FALSE
    /\ requests' = <<>>
    /\ remote_outcome' = NoRequest
    /\ cache_written' = FALSE
    /\ daily_kospi_data' = NoneDF
    /\ kospi_status_msg' = NoMsg
    /\ cached_kospi' = FALSE
    /\ UNCHANGED <<trade_file, cache_file, view_vars>>

vars == <<pc, trade_vars, kospi_vars, view_vars, runs>>

\* the state of a process that starts
Fresh ==
    /\ pc = "load_trade"
    /\ trade_data_processed = NoneDF
    /\ cached_trade = FALSE
    /\ derived_computed = FALSE
    /\ requests = <<>>
    /\ remote_outcome = NoRequest
    /\ cache_written = FALSE
    /\ daily_kospi_data = NoneDF
    /\ kospi_status_msg = NoMsg
    /\ cached_kospi = FALSE
    /\ kospi_data_processed = NoneDF
    /\ session = NoSession
    /\ display_df = NoneDF
    /\ cols_to_use = <<>>
    /\ runs = 1

AbsentFile == [exists |-> FALSE, rows |-> <<>>]
ExistingFile(rows) == [exists |-> TRUE, rows |-> rows]

\* the dashboard: one process from its start
Init ==
    /\ Fresh
    /\ trade_file \in {AbsentFile, ExistingFile(TradeFileA), ExistingFile(TradeFileB)}
    /\ cache_file \in {AbsentFile, ExistingFile(CacheA)}
    /\ today \in Todays

Next ==
    \/ CallLoadTradeData
    \/ CallGetAndUpdateKospiData
    \/ Checks
    \/ CallProcessKospi
    \/ SessionInit
    \/ FilterAndMerge
    \/ Chart
    \/ SelectCountry
    \/ Toggle12m
    \/ ToggleYoy
    \/ ClickPeriod

Spec == Init /\ [][Next]_vars

\* the loading of consecutive processes on one cache file
NextRuns ==
    \/ CallLoadTradeData
    \/ CallGetAndUpdateKospiData
    \/ Checks
    \/ Restart

SpecRuns == Init /\ [][NextRuns]_vars

\* the trade table: load_trade_data on the files of TradeFiles
InitTrade ==
    /\ Fresh
    /\ trade_file \in TradeFiles
    /\ cache_file = AbsentFile
    /\ today = 20200131

NextTrade == CallLoadTradeData

SpecTrade == InitTrade /\ [][NextTrade]_vars

\* the resampling: process_kospi_for_chart on the tables of DailyTables
InitResample ==
    /\ pc = "process_kospi"
    /\ trade_file = ExistingFile(TradeFileA)
    /\ trade_data_processed = load_trade_data(trade_file)
    /\ cached_trade = TRUE
    /\ derived_computed = TRUE
    /\ today = 20200131
    /\ daily_kospi_data \in {DF(t) : t \in DailyTables}
    /\ cache_file = ExistingFile(daily_kospi_data.rows)
    /\ requests = <<>>
    /\ remote_outcome = NoRequest
    /\ cache_written = FALSE
    /\ kospi_status_msg = NoMsg
    /\ cached_kospi = TRUE
    /\ kospi_data_processed = NoneDF
    /\ session = NoSession
    /\ display_df = NoneDF
    /\ cols_to_use = <<>>
    /\ runs = 1

NextResample == CallProcessKospi

SpecResample == InitResample /\ [][NextResample]_vars

\* ------------------------------------------------- claims on the trade table

Loaded == ~trade_data_processed.none
processed == trade_data_processed.rows

TrailingOf(m) == m \o "_trailing_12m"
GrowthOf(m) == m \o "_yoy_growth"
BaseCols == {base_col_names[j] : j \in DOMAIN base_col_names}

RowsOfCountry(df, c) == SelectSeq(df, LAMBDA r : r.country_name = c)

\* the cell of country c and column col in calendar month mi: missing when the
\* table has no row of c in that month
RowsAtMonth(df, c, mi) ==
    {i \in 1..Len(df) : df[i].country_name = c /\ MonthIdx(df[i].Date) = mi}
CellAtMonth(df, c, col, mi) ==
    IF RowsAtMonth(df, c, mi) = {} THEN NaN
    ELSE df[CHOOSE i \in RowsAtMonth(df, c, mi) : TRUE][col]

\* (current - priorPeriod) / |priorPeriod| * 100
GrowthAbs(cur, prior) ==
    FMulInt(FDiv(FAdd(cur, FMulInt(prior, -1)), Frac(Abs(prior.n), prior.d)), 100)

\* the growth of column col at row i as the calendar defines it
GrowthDefined(df, i, col) ==
    /\ IsNum(df[i][col])
    /\ IsNum(CellAtMonth(df, df[i].country_name, col, MonthIdx(df[i].Date) - 12))
    /\ CellAtMonth(df, df[i].country_name, col, MonthIdx(df[i].Date) - 12).n # 0

\* C2: for every country, base metric m and month t with m[t] and m[t-12] present
\* and m[t-12] non-zero, m_yoy_growth[t] = (m[t] - m[t-12]) / |m[t-12]| * 100, and
\* the same formula on m_trailing_12m gives m_trailing_12m_yoy_growth.
C2_GrowthUsesAbsDenominator ==
    Loaded =>
        \A i \in 1..Len(processed) : \A m \in BaseCols :
            \A col \in {m, TrailingOf(m)} :
                GrowthDefined(processed, i, col) =>
                    processed[i][GrowthOf(col)] =
                        GrowthAbs(processed[i][col],
                                  CellAtMonth(processed, processed[i].country_name, col,
                                              MonthIdx(processed[i].Date) - 12))

\* C3: m_yoy_growth[M] is missing whenever raw[M-12] is missing (absent row or
\* missing value) or exactly 0, and whenever raw[M] is missing; no growth column
\* holds an infinite value.
C3_GrowthMissingWithoutPrior ==
    Loaded =>
        \A i \in 1..Len(processed) : \A m \in BaseCols :
            /\ ~GrowthDefined(processed, i, m) => IsNaN(processed[i][GrowthOf(m)])
            /\ ~IsInf(processed[i][GrowthOf(m)])
            /\ ~IsInf(processed[i][GrowthOf(TrailingOf(m))])

\* the 12 calendar months M-11..M of row i all hold a value of column col
WindowPresent(df, i, col) ==
    \A mi \in (MonthIdx(df[i].Date) - Window + 1)..MonthIdx(df[i].Date) :
        IsNum(CellAtMonth(df, df[i].country_name, col, mi))

RECURSIVE CalendarSum(_, _, _, _, _)
CalendarSum(df, c, col, lo, hi) ==
    IF lo > hi THEN Num(0)
    ELSE FAdd(CalendarSum(df, c, col, lo, hi - 1), CellAtMonth(df, c, col, hi))

\* C4: m_trailing_12m[M] is the sum of the values of the 12 calendar months
\* M-11..M when all 12 are present for the country, and missing otherwise.
C4_TrailingIsCalendarWindow ==
    Loaded =>
        \A i \in 1..Len(processed) : \A m \in BaseCols :
            processed[i][TrailingOf(m)] =
                IF WindowPresent(processed, i, m)
                THEN CalendarSum(processed, processed[i].country_name, m,
                                 MonthIdx(processed[i].Date) - Window + 1,
                                 MonthIdx(processed[i].Date))
                ELSE NaN

\* tables that agree with rows on the rows of country c: without the other
\* countries, and with the other countries' rows changed and moved
ChangedRow(r) ==
    [r EXCEPT !.export_amount = Num(77), !.import_amount = NaN,
              !.trade_balance = Num(-5)]
AgreeingTables(rows, c) ==
    LET mine == RowsOfCountry(rows, c)
        others == SelectSeq(rows, LAMBDA r : r.country_name # c)
    IN {mine,
        Reverse(mine) \o [j \in 1..Len(others) |-> ChangedRow(others[j])]}

\* C5: the derived columns of a country depend only on that country's rows: every
\* table that agrees on the rows of country C yields the same rows for C.
C5_CountryIsolation ==
    Loaded =>
        \A c \in CountriesOf(trade_file.rows) :
            \A t \in AgreeingTables(trade_file.rows, c) :
                RowsOfCountry(load_rows(t), c) = RowsOfCountry(processed, c)

C5_Witness ==
    /\ Loaded
    /\ \E i, j \in 1..Len(processed) :
        /\ processed[i].country_name = "CN"
        /\ processed[j].country_name = "US"
        /\ IsNum(processed[j].export_amount_trailing_12m_yoy_growth)

\* --------------------------------------------------- claims on the resampling

Resampled == ~kospi_data_processed.none
daily == daily_kospi_data.rows
monthly == kospi_data_processed.rows

InputMonths == {MonthIdx(daily[i].Date) : i \in 1..Len(daily)}

\* the Close of the input row with the maximum date within calendar month mi
CloseOfMaxDate(mi) ==
    LET inmonth == {i \in 1..Len(daily) : MonthIdx(daily[i].Date) = mi}
        last == CHOOSE i \in inmonth : \A j \in inmonth : daily[j].Date <= daily[i].Date
    IN daily[last].Close

MonthlyWellKeyed ==
    /\ \A j \in 1..Len(monthly) : monthly[j].Date = MonthEnd(monthly[j].Date)
    /\ \A j \in 1..(Len(monthly) - 1) : monthly[j].Date < monthly[j + 1].Date

DatesOf(rows) == {rows[i].Date : i \in 1..Len(rows)}

RECURSIVE IsSubsequence(_, _)
IsSubsequence(s, t) ==
    IF s = <<>> THEN TRUE
    ELSE IF t = <<>> THEN FALSE
    ELSE IF s[1] = t[1] THEN IsSubsequence(Tail(s), Tail(t))
    ELSE IsSubsequence(s, Tail(t))

\* the step is an executed call of get_and_update_kospi_data
KospiCallStep == pc = "get_kospi" /\ ~cached_kospi /\ pc' = "checks"

\* C8: with a cache file whose last date is before today only the range from the day
\* after the last date is requested; if the request fails the cached rows come back
\* with a message, the file is unchanged and the run is not stopped for the index;
\* with a cache file whose last date is not before today nothing is requested.
C8_DeltaRequestAndFallback ==
    [][/\ (KospiCallStep /\ cache_file.exists /\ MaxDate(cache_file.rows) < today) =>
            /\ requests' = Append(requests,
                                  [start |-> NextDay(MaxDate(cache_file.rows)),
                                   end |-> today])
            /\ remote_outcome'.kind = "raised" =>
                  /\ daily_kospi_data' = DF(cache_file.rows)
                  /\ kospi_status_msg' # NoMsg
                  /\ cache_file' = cache_file
       /\ (KospiCallStep /\ cache_file.exists /\ ~(MaxDate(cache_file.rows) < today)) =>
            /\ requests' = requests
            /\ remote_outcome'.kind = "none"
            /\ cache_file' = cache_file
       /\ (pc = "checks" /\ cache_file.exists /\ remote_outcome.kind = "raised"
           /\ ~trade_data_processed.none) => pc' = "process_kospi"
      ]_vars

C8_Witness ==
    /\ pc = "process_kospi"
    /\ remote_outcome.kind = "raised"
    /\ kospi_status_msg = "update_error"
    /\ cache_file = ExistingFile(CacheA)
    /\ daily_kospi_data = DF(CacheA)
    /\ requests = <<[start |-> 20200201, end |-> 20200211]>>

\* the rows the remote source returned in the step
Delivered == IF KospiCallStep THEN remote_outcome'.rows ELSE <<>>

\* C9 as stated: once the cache file exists, every row it holds before a step is
\* still in it after the step, unchanged and in the same relative order, and every
\* added row is dated after the previous last date.
C9_CacheAppendOnly ==
    [][cache_file.exists =>
          /\ cache_file'.exists
          /\ IsSubsequence(cache_file.rows, cache_file'.rows)
          /\ \A i \in 1..Len(cache_file'.rows) :
                (\A j \in 1..Len(cache_file.rows) :
                    cache_file.rows[j] # cache_file'.rows[i])
                => cache_file'.rows[i].Date > MaxDate(cache_file.rows)
      ]_vars

\* C9 amended: the cache file never loses a date; after a call it holds the previous
\* rows whose dates the remote source did not return again, unchanged and in the
\* same order, followed by the rows the remote source returned (so rows dated after
\* the previous last date are appended, and a date returned again takes the remote
\* source's row); an empty or failed request does not change the file.
C9_CacheKeepsDatesLastWins ==
    [][cache_file.exists =>
          /\ cache_file'.exists
          /\ DatesOf(cache_file.rows) \subseteq DatesOf(cache_file'.rows)
          /\ cache_file'.rows =
                SelectSeq(cache_file.rows, LAMBDA r : r.Date \notin DatesOf(Delivered))
                \o Delivered
          /\ (\A i \in 1..Len(Delivered) :
                  Delivered[i].Date > MaxDate(cache_file.rows))
             => cache_file'.rows = cache_file.rows \o Delivered
          /\ Delivered = <<>> => cache_file' = cache_file
      ]_vars

C9_Witness ==
    /\ runs = 2
    /\ cache_written
    /\ remote_outcome.kind = "rows"
    /\ cache_file.rows = <<KospiRow(20200115, Num(100)), KospiRow(20200131, Num(106)),
                           KospiRow(20200210, Num(110))>>

\* ------------------------------------------------- claims on the dashboard

FatalError ==
    \/ cached_trade /\ trade_data_processed.none
    \/ cached_kospi /\ daily_kospi_data.none

Displayed == ~display_df.none
shown == display_df.rows

CountryRowsInPeriod ==
    SelectSeq(processed, LAMBDA r : /\ r.country_name = session.selected_country
                                    /\ r.Date >= session.start_date
                                    /\ r.Date <= session.end_date)
TradeMonthsOfCountry ==
    {MonthIdx(processed[i].Date) :
        i \in {k \in 1..Len(processed) :
                  processed[k].country_name = session.selected_country}}
IndexMonths == {MonthIdx(monthly[j].Date) : j \in 1..Len(monthly)}
ShownMonths == {MonthIdx(shown[j].Date) : j \in 1..Len(shown)}

ProducedCols == ValueCols(processed[1])

\* C10: for each of the 4 combinations of the toggles the selection resolves 3
\* column names, base name + optional '_trailing_12m' + optional '_yoy_growth', in
\* the order export, import, balance, each one of the 12 columns load_trade_data
\* produces.
C10_ColsExist ==
    (pc = "controls" /\ shown # <<>>) =>
        /\ Len(cols_to_use) = 3
        /\ Cardinality(ProducedCols) = 12
        /\ \A j \in 1..3 :
              /\ cols_to_use[j] =
                    base_col_names[j]
                        \o (IF session.is_12m_trailing THEN "_trailing_12m" ELSE "")
                        \o (IF session.show_yoy_growth THEN "_yoy_growth" ELSE "")
              /\ cols_to_use[j] \in ProducedCols
              /\ \A i \in 1..Len(shown) : cols_to_use[j] \in DOMAIN shown[i]

C10_Witness ==
    /\ pc = "controls"
    /\ session.is_12m_trailing
    /\ session.show_yoy_growth
    /\ shown # <<>>
    /\ cols_to_use = <<"export_amount_trailing_12m_yoy_growth",
                        "import_amount_trailing_12m_yoy_growth",
                        "trade_balance_trailing_12m_yoy_growth">>

\* export_amount - import_amount of row r
ExportMinusImport(r) == FAdd(r.export_amount, FMulInt(r.import_amount, -1))

\* C11: every row of the table load_trade_data returns whose three amounts are
\* numbers has trade_balance = export_amount - import_amount, and its
\* trade_balance_trailing_12m, when the three trailing sums are numbers, is the
\* difference of the export and import trailing sums: no input trade_balance that
\* disagrees with export_amount - import_amount is passed through or summed.
C11_BalanceIsExportMinusImport ==
    Loaded =>
        \A i \in 1..Len(processed) :
            /\ (/\ IsNum(processed[i].export_amount)
                /\ IsNum(processed[i].import_amount)
                /\ IsNum(processed[i].trade_balance)) =>
                   processed[i].trade_balance = ExportMinusImport(processed[i])
            /\ (/\ IsNum(processed[i].export_amount_trailing_12m)
                /\ IsNum(processed[i].import_amount_trailing_12m)
                /\ IsNum(processed[i].trade_balance_trailing_12m)) =>
                   processed[i].trade_balance_trailing_12m =
                       FAdd(processed[i].export_amount_trailing_12m,
                            FMulInt(processed[i].import_amount_trailing_12m, -1))

====
